---------------------------- MODULE Spec2Model ----------------------------
(***************************************************************************)
(* A model of the hex-dump library src/src/lib.rs: the paginator           *)
(* buf_to_array, the hex-dump renderer of run, the array-literal renderer  *)
(* output_array and the argument handling of run.                          *)
(*                                                                         *)
(* Text is a sequence of pieces.  A piece is one character (a string of    *)
(* length 1); a literal of the source whose columns no property reads      *)
(* (an opening line, the summary label, an escape sequence, a message) is  *)
(* kept as one piece.                                                      *)
(***************************************************************************)
EXTENDS Integers, Sequences, FiniteSets, TLC

VARIABLES
    pc,             \* position in the operation being run
    args,           \* the command line: argument name -> text or Absent
    env,            \* no_color, is_terminal and the input source
    src,            \* the bytes the source yields
    fail,           \* TRUE: the read after the last byte of src fails
    column_width,   \* run: column_width
    truncate_len,   \* run: truncate_len
    format_out,     \* run: format_out
    colorize,       \* run: colorize
    prefix,         \* run: prefix
    array_format,   \* output_array: array_format
    page,           \* buf_to_array: page / the page returned
    line,           \* buf_to_array: line (the row in progress)
    column_count,   \* buf_to_array: column_count
    pos,            \* number of bytes taken from src so far
    offset_counter, \* run: offset_counter
    row,            \* number of rows of page.body rendered so far
    out,            \* standard output
    err,            \* standard error
    result,         \* "none" while running, then "Ok", "Err" or "panic"
    printed         \* history: what each rendered row or byte wrote

vars == <<pc, args, env, src, fail, column_width, truncate_len, format_out,
          colorize, prefix, array_format, page, line, column_count, pos,
          offset_counter, row, out, err, result, printed>>

(***************************************************************************)
(* Bounds of the model.                                                    *)
(***************************************************************************)
MaxLen == 3

MaxCols == 3

MaxTrunc == 3

\* byte values the source may yield: NUL, a printable character, a high byte
Bytes == {0, 65, 171}

\* u16::MAX
max_array_size == 65535

default_column_width == 10

RECURSIVE SeqsUpTo(_, _)
SeqsUpTo(S, n) ==
    IF n = 0 THEN {<<>>}
    ELSE LET shorter == SeqsUpTo(S, n - 1)
         IN  shorter \cup {Append(s, x) : s \in {t \in shorter : Len(t) = n - 1}, x \in S}

Sources == SeqsUpTo(Bytes, MaxLen)

Widths == 0..MaxCols

TruncLens == (0..MaxTrunc) \cup {max_array_size}

Min(a, b) == IF a < b THEN a ELSE b

(***************************************************************************)
(* Line and Page.                                                          *)
(***************************************************************************)
LineNew == [offset |-> 0, hex_body |-> <<>>, ascii |-> <<>>, bytes |-> 0]

PageNew == [offset |-> 0, body |-> <<>>, bytes |-> 0]

(***************************************************************************)
(* buf_to_array.  The loop body is LoopBody; SealRow, StopEarly and        *)
(* PushLast are its two tests and the push after the loop.                 *)
(***************************************************************************)
SealRowOff(count, width) == count > width

SealRow(count, width) == count >= width

StopEarlyLate(page_bytes, buf_len) ==
    buf_len > 0 /\ (page_bytes > buf_len \/ max_array_size = buf_len)

StopEarly(page_bytes, buf_len) ==
    buf_len > 0 /\ (page_bytes = buf_len \/ max_array_size = buf_len)

PushLastNonEmpty(p, l) ==
    IF l.bytes = 0 THEN p ELSE [p EXCEPT !.body = Append(@, l)]

PushLast(p, l) == [p EXCEPT !.body = Append(@, l)]

\* one iteration of the loop for the byte b1 (lines 431-445); brk: the loop breaks
LoopBody(st, b1, buf_len, width) ==
    LET line1 == [st.line EXCEPT !.bytes = @ + 1, !.hex_body = Append(@, b1)]
        page1 == [st.page EXCEPT !.bytes = @ + 1]
        count1 == st.column_count + 1
        seal == SealRow(count1, width)
        page2 == IF seal THEN [page1 EXCEPT !.body = Append(@, line1)] ELSE page1
    IN  [page |-> page2,
         line |-> IF seal THEN LineNew ELSE line1,
         column_count |-> IF seal THEN 0 ELSE count1,
         brk |-> StopEarly(page2.bytes, buf_len)]

LoopStart == [page |-> PageNew, line |-> LineNew, column_count |-> 0, brk |-> FALSE]

RECURSIVE LoopFrom(_, _, _, _, _, _)
LoopFrom(st, bytes, failing, i, buf_len, width) ==
    IF st.brk THEN [ok |-> TRUE, page |-> PushLast(st.page, st.line)]
    ELSE IF i > Len(bytes)
         THEN IF failing THEN [ok |-> FALSE, page |-> PageNew]
              ELSE [ok |-> TRUE, page |-> PushLast(st.page, st.line)]
         ELSE LoopFrom(LoopBody(st, bytes[i], buf_len, width), bytes, failing,
                       i + 1, buf_len, width)

\* the whole function: ok = FALSE is the Err of a failed read
buf_to_array(bytes, failing, buf_len, width) ==
    LoopFrom(LoopStart, bytes, failing, 1, buf_len, width)

(***************************************************************************)
(* The paginator alone, one byte per step.                                 *)
(***************************************************************************)
Idle ==
    /\ args = <<>> /\ env = <<>>
    /\ format_out = "LowerHex" /\ colorize = FALSE /\ prefix = TRUE
    /\ array_format = "" /\ offset_counter = 0 /\ row = 0
    /\ out = <<>> /\ err = <<>> /\ result = "none" /\ printed = <<>>

InitPage ==
    /\ pc = "read"
    /\ src \in Sources /\ fail \in BOOLEAN
    /\ column_width \in Widths /\ truncate_len \in TruncLens
    /\ page = PageNew /\ line = LineNew /\ column_count = 0 /\ pos = 0
    /\ Idle

\* for b in buf.bytes(): the next byte, line 431 onward
ReadByte ==
    /\ pc = "read" /\ pos < Len(src)
    /\ LET st == LoopBody([page |-> page, line |-> line, column_count |-> column_count],
                          src[pos + 1], truncate_len, column_width)
       IN  /\ page' = st.page /\ line' = st.line /\ column_count' = st.column_count
           /\ pc' = IF st.brk THEN "push" ELSE "read"
    /\ pos' = pos + 1
    /\ UNCHANGED <<args, env, src, fail, column_width, truncate_len, format_out,
                   colorize, prefix, array_format, offset_counter, row, out, err,
                   result, printed>>

\* the iterator ends: None
ReadEof ==
    /\ pc = "read" /\ pos = Len(src) /\ ~fail
    /\ pc' = "push"
    /\ UNCHANGED <<args, env, src, fail, column_width, truncate_len, format_out,
                   colorize, prefix, array_format, page, line, column_count, pos,
                   offset_counter, row, out, err, result, printed>>

\* let b1 = b?: the read fails, the page is dropped
ReadFail ==
    /\ pc = "read" /\ pos = Len(src) /\ fail
    /\ pc' = "done" /\ result' = "Err"
    /\ page' = PageNew /\ line' = LineNew /\ column_count' = 0
    /\ UNCHANGED <<args, env, src, fail, column_width, truncate_len, format_out,
                   colorize, prefix, array_format, pos, offset_counter, row, out,
                   err, printed>>

\* page.body.push(line); Ok(page)
ReadReturn ==
    /\ pc = "push"
    /\ page' = PushLast(page, line)
    /\ pc' = "done" /\ result' = "Ok"
    /\ UNCHANGED <<args, env, src, fail, column_width, truncate_len, format_out,
                   colorize, prefix, array_format, line, column_count, pos,
                   offset_counter, row, out, err, printed>>

NextPage == ReadByte \/ ReadEof \/ ReadFail \/ ReadReturn

SpecPage == InitPage /\ [][NextPage]_vars


(***************************************************************************)
(* Number formatting, as Rust's format! does it.                           *)
(***************************************************************************)
HexLower == <<"0", "1", "2", "3", "4", "5", "6", "7", "8", "9",
              "a", "b", "c", "d", "e", "f">>

HexUpper == <<"0", "1", "2", "3", "4", "5", "6", "7", "8", "9",
              "A", "B", "C", "D", "E", "F">>

RECURSIVE ToDigits(_, _, _)
ToDigits(n, radix, table) ==
    IF n < radix THEN <<table[n + 1]>>
    ELSE Append(ToDigits(n \div radix, radix, table), table[(n % radix) + 1])

Spaces(n) == [i \in 1..n |-> " "]

\* the flag 0 with a width: zeros in front, up to the width
ZeroPad(digits, width) ==
    IF Len(digits) >= width THEN digits
    ELSE [i \in 1..(width - Len(digits)) |-> "0"] \o digits

\* {:#0Wx}, {:#0Wo}, {:#0Wb}: the width W counts the two characters of the prefix
FmtAlt(n, radix, table, pfx, width) ==
    pfx \o ZeroPad(ToDigits(n, radix, table), width - Len(pfx))

\* {:0Wx}
FmtPlain(n, radix, table, width) == ZeroPad(ToDigits(n, radix, table), width)

\* {} of an integer
Dec(n) == ToDigits(n, 10, HexLower)

(***************************************************************************)
(* offset, print_offset                                                    *)
(***************************************************************************)
offsetTenWide(b) == FmtAlt(b, 16, HexLower, <<"0", "x">>, 10)

\* format!("{b:#08x}")
offset(b) == FmtAlt(b, 16, HexLower, <<"0", "x">>, 8)

print_offset(b) == offset(b) \o <<":", " ">>

(***************************************************************************)
(* Format::format (module format, not among the sources): the tokens as    *)
(* the specification gives them.  Octal, hex and binary are zero-padded    *)
(* to a constant number of digits, with 0o, 0x/0X, 0b in front on request; *)
(* Unknown is the empty placeholder.  The pointer and exponential          *)
(* renderings are not pinned down and are left out of DumpFormats.         *)
(***************************************************************************)
DumpFormats == {"Octal", "LowerHex", "UpperHex", "Binary", "Unknown"}

Format_format(fmt, data, with_prefix) ==
    CASE fmt = "Octal" ->
           IF with_prefix THEN FmtAlt(data, 8, HexLower, <<"0", "o">>, 6)
           ELSE FmtPlain(data, 8, HexLower, 4)
      [] fmt = "LowerHex" ->
           IF with_prefix THEN FmtAlt(data, 16, HexLower, <<"0", "x">>, 4)
           ELSE FmtPlain(data, 16, HexLower, 2)
      [] fmt = "UpperHex" ->
           IF with_prefix THEN FmtAlt(data, 16, HexUpper, <<"0", "X">>, 4)
           ELSE FmtPlain(data, 16, HexUpper, 2)
      [] fmt = "Binary" ->
           IF with_prefix THEN FmtAlt(data, 2, HexLower, <<"0", "b">>, 10)
           ELSE FmtPlain(data, 2, HexLower, 8)
      [] fmt = "Unknown" -> <<>>

(***************************************************************************)
(* byte_to_color, print_byte, append_ascii                                 *)
(***************************************************************************)
byte_to_color(b) == IF b = 0 THEN 22 ELSE b

\* ansi_term: Style::new().fg(Color::Fixed(c)).paint(text)
Paint(c, text) == <<"ESC[38;5;">> \o Dec(c) \o <<"m">> \o text \o <<"ESC[0m">>

print_byte(b, fmt, color, with_prefix) ==
    LET fmt_string == Format_format(fmt, b, with_prefix)
    IN  IF color THEN Paint(byte_to_color(b), fmt_string) \o <<" ">>
        ELSE fmt_string \o <<" ">>

\* b as char, for the byte values of Bytes that are printable
AsChar(b) == CASE b = 65 -> "A" [] OTHER -> "?"

append_ascii(target, b, color) ==
    LET chr == IF b > 31 /\ b < 127 THEN AsChar(b) ELSE "."
    IN  IF color THEN target \o Paint(byte_to_color(b), <<chr>>)
        ELSE Append(target, chr)

(***************************************************************************)
(* The hex-dump renderer of run, lines 264-299, one row per step.          *)
(***************************************************************************)
AdvanceTwice(counter) == counter + 2

\* offset_counter += 1
Advance(counter) == counter + 1

\* lines 282-289: the width of the padding after the tokens of a row
PadLen(width, byte_column) ==
    IF byte_column < width THEN 5 * (width - byte_column) ELSE 0

\* lines 275-280 from the i-th byte of the row on
RECURSIVE RenderBytes(_, _, _)
RenderBytes(hex_body, i, acc) ==
    IF i > Len(hex_body) THEN acc
    ELSE RenderBytes(hex_body, i + 1,
           [offset_counter |-> Advance(acc.offset_counter),
            byte_column |-> acc.byte_column + 1,
            text |-> acc.text \o print_byte(hex_body[i], format_out, colorize, prefix),
            ascii |-> append_ascii(acc.ascii, hex_body[i], colorize)])

DumpTruncs == {0, MaxTrunc, max_array_size}

InitDump ==
    /\ pc = "dump"
    /\ src \in Sources /\ fail \in BOOLEAN
    /\ column_width \in Widths /\ truncate_len \in DumpTruncs
    /\ format_out \in DumpFormats /\ colorize \in BOOLEAN /\ prefix \in BOOLEAN
    /\ page = PageNew /\ line = LineNew /\ column_count = 0 /\ pos = 0
    /\ args = <<>> /\ env = <<>> /\ array_format = ""
    /\ offset_counter = 0 /\ row = 0
    /\ out = <<>> /\ err = <<>> /\ result = "none" /\ printed = <<>>

\* lines 264-267: let page = buf_to_array(&mut buf, truncate_len, column_width)?
DumpBegin ==
    /\ pc = "dump"
    /\ LET r == buf_to_array(src, fail, truncate_len, column_width)
       IN  \/ /\ r.ok
              /\ page' = r.page /\ pc' = "rows"
              /\ offset_counter' = 0 /\ row' = 0
              /\ UNCHANGED result
           \/ /\ ~r.ok
              /\ pc' = "done" /\ result' = "Err"
              /\ UNCHANGED <<page, offset_counter, row>>
    /\ UNCHANGED <<args, env, src, fail, column_width, truncate_len, format_out,
                   colorize, prefix, array_format, line, column_count, pos, out,
                   err, printed>>

\* lines 272-296 for one line of page.body
DumpRow ==
    /\ pc = "rows" /\ row < Len(page.body)
    /\ LET l == page.body[row + 1]
           head == print_offset(offset_counter)
           acc == RenderBytes(l.hex_body, 1,
                              [offset_counter |-> offset_counter, byte_column |-> 0,
                               text |-> <<>>, ascii |-> <<>>])
           hex == head \o acc.text \o Spaces(PadLen(column_width, acc.byte_column))
       IN  /\ out' = out \o hex \o acc.ascii \o <<"\n">>
           /\ offset_counter' = acc.offset_counter
           /\ printed' = Append(printed, [at |-> offset_counter,
                                          start |-> Len(out) + 1,
                                          gutter |-> Len(out) + Len(hex) + 1])
    /\ row' = row + 1
    /\ UNCHANGED <<pc, args, env, src, fail, column_width, truncate_len, format_out,
                   colorize, prefix, array_format, page, line, column_count, pos,
                   err, result>>

\* lines 297-302: the summary line, Ok(())
DumpSummary ==
    /\ pc = "rows" /\ row = Len(page.body)
    /\ out' = out \o <<"   bytes: ">> \o Dec(page.bytes) \o <<"\n">>
    /\ pc' = "done" /\ result' = "Ok"
    /\ UNCHANGED <<args, env, src, fail, column_width, truncate_len, format_out,
                   colorize, prefix, array_format, page, line, column_count, pos,
                   offset_counter, row, err, printed>>

NextDump == DumpBegin \/ DumpRow \/ DumpSummary

SpecDump == InitDump /\ [][NextDump]_vars

(***************************************************************************)
(* output_array, lines 337-392, one row per step.                          *)
(***************************************************************************)
ArrayTags == {"r", "c", "g", "p", "k", "j", "s", "f", "z"}

\* lines 347-357
ArrayOpen(tag, total) ==
    CASE tag = "r" -> <<"let ARRAY: [u8; ">> \o Dec(total) \o <<"] = [", "\n">>
      [] tag = "c" -> <<"unsigned char ARRAY[">> \o Dec(total) \o <<"] = {", "\n">>
      [] tag = "g" -> <<"a := [">> \o Dec(total) \o <<"]byte{", "\n">>
      [] tag = "p" -> <<"a = [", "\n">>
      [] tag = "k" -> <<"val a = byteArrayOf(", "\n">>
      [] tag = "j" -> <<"byte[] a = new byte[]{", "\n">>
      [] tag = "s" -> <<"let a: [UInt8] = [", "\n">>
      [] tag = "f" -> <<"let a = [|", "\n">>
      [] OTHER -> <<"unknown array format", "\n">>

\* lines 378-391
ArrayClose(tag) ==
    CASE tag = "r" -> <<"];", "\n">>
      [] tag \in {"c", "j"} -> <<"};", "\n">>
      [] tag = "g" -> <<"}", "\n">>
      [] tag = "p" -> <<"]", "\n">>
      [] tag = "k" -> <<")", "\n">>
      [] tag = "s" -> <<"]", "\n">>
      [] tag = "f" -> <<"|]", "\n">>
      [] OTHER -> <<"unknown array format", "\n">>

ArrayItemAlwaysSeparated(tag, i, total, hex) ==
    IF tag # "f" THEN Format_format("LowerHex", hex, TRUE) \o <<",", " ">>
    ELSE Format_format("LowerHex", hex, TRUE) \o <<"u", "y", ";", " ">>

\* lines 363-373: what is written for the i-th byte of the page
ArrayItem(tag, i, total, hex) ==
    IF i = total /\ tag # "g"
    THEN IF tag # "f" THEN Format_format("LowerHex", hex, TRUE)
         ELSE Format_format("LowerHex", hex, TRUE) \o <<"u", "y">>
    ELSE IF tag # "f" THEN Format_format("LowerHex", hex, TRUE) \o <<",", " ">>
         ELSE Format_format("LowerHex", hex, TRUE) \o <<"u", "y", ";", " ">>

\* lines 361-374 from the k-th byte of the row on; acc.i is the counter i
RECURSIVE ArrayBytes(_, _, _)
ArrayBytes(hex_body, k, acc) ==
    IF k > Len(hex_body) THEN acc
    ELSE LET i == acc.i + 1
             item == ArrayItem(array_format, i, page.bytes, hex_body[k])
         IN  ArrayBytes(hex_body, k + 1,
               [i |-> i,
                text |-> acc.text \o item,
                log |-> Append(acc.log, [i |-> i,
                                         start |-> acc.base + Len(acc.text) + 1,
                                         end |-> acc.base + Len(acc.text) + Len(item)]),
                base |-> acc.base])

InitArray ==
    /\ pc = "array"
    /\ src \in Sources /\ fail \in BOOLEAN
    /\ column_width \in Widths /\ truncate_len \in DumpTruncs
    /\ array_format \in ArrayTags
    /\ format_out = "LowerHex" /\ colorize = FALSE /\ prefix = TRUE
    /\ page = PageNew /\ line = LineNew /\ column_count = 0 /\ pos = 0
    /\ args = <<>> /\ env = <<>>
    /\ offset_counter = 0 /\ row = 0
    /\ out = <<>> /\ err = <<>> /\ result = "none" /\ printed = <<>>

\* what the panic of an unwrap() on an Err writes
PanicMessage == "panicked: called Result::unwrap() on an Err value"

\* lines 343-358: buf_to_array(..).unwrap(), then the opening line
ArrayBegin ==
    /\ pc = "array"
    /\ LET r == buf_to_array(src, fail, truncate_len, column_width)
       IN  \/ /\ r.ok
              /\ page' = r.page /\ pc' = "items"
              /\ out' = out \o ArrayOpen(array_format, r.page.bytes)
              /\ offset_counter' = 0 /\ row' = 0
              /\ UNCHANGED <<result, err>>
           \/ /\ ~r.ok
              /\ pc' = "done" /\ result' = "panic"
              /\ err' = Append(err, PanicMessage)
              /\ UNCHANGED <<page, offset_counter, row, out>>
    /\ UNCHANGED <<args, env, src, fail, column_width, truncate_len, format_out,
                   colorize, prefix, array_format, line, column_count, pos, printed>>

\* lines 359-376 for one line of page.body; offset_counter holds the counter i
ArrayRow ==
    /\ pc = "items" /\ row < Len(page.body)
    /\ LET l == page.body[row + 1]
           acc == ArrayBytes(l.hex_body, 1,
                             [i |-> offset_counter, text |-> <<>>, log |-> <<>>,
                              base |-> Len(out) + 1])
       IN  /\ out' = out \o <<"    ">> \o acc.text \o <<"\n">>
           /\ offset_counter' = acc.i
           /\ printed' = printed \o acc.log
    /\ row' = row + 1
    /\ UNCHANGED <<pc, args, env, src, fail, column_width, truncate_len, format_out,
                   colorize, prefix, array_format, page, line, column_count, pos,
                   err, result>>

\* lines 378-392: the closing line
ArrayEnd ==
    /\ pc = "items" /\ row = Len(page.body)
    /\ out' = out \o ArrayClose(array_format)
    /\ pc' = "done" /\ result' = "Ok"
    /\ UNCHANGED <<args, env, src, fail, column_width, truncate_len, format_out,
                   colorize, prefix, array_format, page, line, column_count, pos,
                   offset_counter, row, err, printed>>

NextArray == ArrayBegin \/ ArrayRow \/ ArrayEnd

SpecArray == InitArray /\ [][NextArray]_vars

(***************************************************************************)
(* The argument handling of run, lines 166-256.                            *)
(***************************************************************************)
\* an argument that was not given; the text of a number is a sequence of characters
None == [present |-> FALSE, text |-> <<>>]

\* a format or array tag that was not given; a tag is a string
NoTag == [present |-> FALSE, text |-> ""]

Some(t) == [present |-> TRUE, text |-> t]

DigitChars == {"0", "1", "2", "3", "4", "5", "6", "7", "8", "9"}

DigitVal(c) == CHOOSE d \in 0..9 : HexLower[d + 1] = c

RECURSIVE DigitsVal(_)
DigitsVal(ds) ==
    IF ds = <<>> THEN 0
    ELSE 10 * DigitsVal(SubSeq(ds, 1, Len(ds) - 1)) + DigitVal(ds[Len(ds)])

u8_MAX == 255

\* str::parse of an unsigned integer: an optional +, then one digit or more, and no
\* overflow; limit = 0 stands for a type the texts of the model cannot overflow
ParseUnsigned(t, limit) ==
    LET ds == IF t # <<>> /\ t[1] = "+" THEN Tail(t) ELSE t
    IN  IF ds = <<>> \/ \E i \in 1..Len(ds) : ds[i] \notin DigitChars
        THEN [ok |-> FALSE, val |-> 0]
        ELSE IF limit > 0 /\ DigitsVal(ds) > limit
             THEN [ok |-> FALSE, val |-> 0]
             ELSE [ok |-> TRUE, val |-> DigitsVal(ds)]

ParseU64(t) == ParseUnsigned(t, 0)

ParseU8(t) == ParseUnsigned(t, u8_MAX)

\* lines 219-231
FormatOf(tag) ==
    CASE tag = "o" -> "Octal"
      [] tag = "x" -> "LowerHex"
      [] tag = "X" -> "UpperHex"
      [] tag = "p" -> "Pointer"
      [] tag = "b" -> "Binary"
      [] tag = "e" -> "LowerExp"
      [] tag = "E" -> "UpperExp"
      [] OTHER -> "Unknown"

\* output_function, lines 399-412; the text of a number is kept as the number it prints
RECURSIVE WaveFrom(_, _, _)
WaveFrom(y, len, places) ==
    IF y >= len THEN <<"\n">>
    ELSE <<[sin_of |-> y, over |-> len, places |-> places], ",">>
         \o (IF y % 10 = 9 THEN <<"\n">> ELSE <<>>)
         \o WaveFrom(y + 1, len, places)

output_function(len, places) == WaveFrom(0, len, places)

default_places == 4

\* lines 235-248: colorize
ColorizeOf(no_color, is_terminal, color) ==
    IF color.present THEN ParseU8(color.text).val = 1
    ELSE ~no_color /\ is_terminal

Returned(res, msgs, text) ==
    [pc |-> "done", result |-> res, err |-> msgs, out |-> text,
     column_width |-> default_column_width, truncate_len |-> 0,
     format_out |-> "LowerHex", colorize |-> TRUE, prefix |-> TRUE, array_format |-> ""]

\* lines 169-180: the wave
RunWave(a) ==
    LET p == IF a.places.present THEN ParseU64(a.places.text)
             ELSE [ok |-> TRUE, val |-> default_places]
        len == ParseU64(a.func.text)
    IN  IF ~p.ok THEN Returned("Err", <<"-p, --places <integer> expected.">>, <<>>)
        ELSE IF ~len.ok THEN Returned("panic", <<PanicMessage>>, <<>>)
        ELSE Returned("Ok", <<>>, output_function(len.val, p.val))

\* lines 187-256: the byte source and the settings of the dump
RunSettings(a, e) ==
    LET cols == IF a.cols.present THEN ParseU64(a.cols.text)
                ELSE [ok |-> TRUE, val |-> default_column_width]
        len == IF a.len.present THEN ParseU64(a.len.text) ELSE [ok |-> TRUE, val |-> 0]
    IN  IF e.input = "nofile" THEN Returned("Err", <<>>, <<>>)
        ELSE IF ~cols.ok THEN Returned("Err", <<"-c, --cols <integer> expected.">>, <<>>)
        ELSE IF ~len.ok THEN Returned("Err", <<"-l, --len <integer> expected.">>, <<>>)
        ELSE IF a.color.present /\ ~ParseU8(a.color.text).ok
             THEN Returned("panic", <<PanicMessage>>, <<>>)
        ELSE IF a.prefix.present /\ ~ParseU8(a.prefix.text).ok
             THEN Returned("panic", <<PanicMessage>>, <<>>)
        ELSE [pc |-> IF a.array.present THEN "array" ELSE "dump",
              result |-> "none", err |-> <<>>, out |-> <<>>,
              column_width |-> cols.val, truncate_len |-> len.val,
              format_out |-> IF a.format.present THEN FormatOf(a.format.text)
                             ELSE "LowerHex",
              colorize |-> ColorizeOf(e.no_color, e.is_terminal, a.color),
              prefix |-> IF a.prefix.present THEN ParseU8(a.prefix.text).val = 1
                         ELSE TRUE,
              array_format |-> IF a.array.present THEN a.array.text ELSE ""]

NumTexts == {<<"1">>, <<"x">>}

WidthTexts == {<<"1">>, <<"2", "0">>, <<"x">>}

Optional(S) == {None} \cup {Some(t) : t \in S}

OptionalTag(S) == {NoTag} \cup {Some(t) : t \in S}

InitConfig ==
    /\ pc = "config"
    /\ args \in [func : Optional(NumTexts), places : Optional(NumTexts),
                 cols : Optional(WidthTexts), len : Optional(WidthTexts),
                 format : OptionalTag({"b", "q"}), color : Optional(NumTexts),
                 prefix : Optional(NumTexts), array : OptionalTag({"r"})]
    /\ env \in [no_color : BOOLEAN, is_terminal : BOOLEAN,
                input : {"stdin", "file", "nofile"}]
    /\ src = <<>> /\ fail = FALSE
    /\ column_width = default_column_width /\ truncate_len = 0
    /\ format_out = "LowerHex" /\ colorize = TRUE /\ prefix = TRUE
    /\ array_format = ""
    /\ page = PageNew /\ line = LineNew /\ column_count = 0 /\ pos = 0
    /\ offset_counter = 0 /\ row = 0
    /\ out = <<>> /\ err = <<>> /\ result = "none" /\ printed = <<>>

\* run up to the point where it starts to read the byte source
RunConfig ==
    /\ pc = "config"
    /\ LET r == IF args.func.present THEN RunWave(args) ELSE RunSettings(args, env)
       IN  /\ pc' = r.pc /\ result' = r.result
           /\ err' = err \o r.err /\ out' = out \o r.out
           /\ column_width' = r.column_width /\ truncate_len' = r.truncate_len
           /\ format_out' = r.format_out /\ colorize' = r.colorize
           /\ prefix' = r.prefix /\ array_format' = r.array_format
    /\ UNCHANGED <<args, env, src, fail, page, line, column_count, pos,
                   offset_counter, row, printed>>

NextConfig == RunConfig

SpecConfig == InitConfig /\ [][NextConfig]_vars

(***************************************************************************)
(* Properties of the paginator (SpecPage).                                 *)
(***************************************************************************)
PageReturned == pc = "done" /\ result = "Ok"

LastRow == page.body[Len(page.body)]

RECURSIVE SumBytes(_)
SumBytes(rows) ==
    IF rows = <<>> THEN 0 ELSE rows[1].bytes + SumBytes(Tail(rows))

\* C1: for a column width W > 0 the page returned holds at most L bytes when the
\* truncation length L is positive, and all N bytes of the input when L = 0.
C1_TotalWithinTruncation ==
    (PageReturned /\ column_width > 0) =>
        /\ truncate_len > 0 => page.bytes <= truncate_len
        /\ truncate_len = 0 => page.bytes = Len(src)

C1_Witness ==
    /\ PageReturned /\ column_width > 0
    /\ truncate_len > 0 /\ truncate_len < Len(src)
    /\ page.bytes = truncate_len

\* C2: the row in progress is always appended as the last row, even when empty:
\* an empty input gives one empty row and a total of 0, and for W > 0 an input
\* whose length is a multiple of W, read to its end, gives an empty last row.
C2_LastRowAppended ==
    PageReturned =>
        /\ Len(page.body) >= 1
        /\ LastRow = line
        /\ Len(src) = 0 => (page.body = <<LineNew>> /\ page.bytes = 0)
        /\ (column_width > 0 /\ page.bytes = Len(src) /\ Len(src) % column_width = 0)
               => (LastRow.bytes = 0 /\ LastRow.hex_body = <<>>)

C2_Witness ==
    /\ PageReturned /\ column_width > 1
    /\ Len(src) > 0 /\ Len(src) % column_width = 0 /\ page.bytes = Len(src)
    /\ Len(page.body) >= 2 /\ LastRow.hex_body = <<>>

\* C8: for L > 0 and W > 0 the read stops early only when the running total equals
\* L, so that the page holds min(L, N) bytes, also for L = 2^16 - 1.
C8_TotalIsMinimum ==
    (PageReturned /\ column_width > 0 /\ truncate_len > 0) =>
        page.bytes = Min(truncate_len, Len(src))

\* C9: for W > 0, after any number of bytes read and in the page returned, the
\* total is the sum of the rows' byte counts, each row's count is the number of
\* bytes it holds, every row before the last holds W bytes and the last fewer.
C9_RowAccounting ==
    (column_width > 0 /\ result # "Err") =>
        LET rows == IF pc = "done" THEN page.body ELSE Append(page.body, line)
        IN  /\ page.bytes = SumBytes(rows)
            /\ \A i \in 1..Len(rows) : rows[i].bytes = Len(rows[i].hex_body)
            /\ \A i \in 1..(Len(rows) - 1) : rows[i].bytes = column_width
            /\ rows[Len(rows)].bytes < column_width

C9_Witness ==
    /\ PageReturned /\ column_width > 1
    /\ Len(page.body) >= 2 /\ LastRow.bytes > 0
    /\ page.body[1].bytes = column_width

(***************************************************************************)
(* Properties of the hex dump (SpecDump).                                  *)
(***************************************************************************)
IsHexDigit(c) == \E d \in 1..16 : HexLower[d] = c

HexDigitVal(c) == (CHOOSE d \in 1..16 : HexLower[d] = c) - 1

RECURSIVE HexVal(_)
HexVal(ds) ==
    IF ds = <<>> THEN 0
    ELSE 16 * HexVal(SubSeq(ds, 1, Len(ds) - 1)) + HexDigitVal(ds[Len(ds)])

\* the text of a rendered row from its start: 0x, n hex digits spelling the
\* offset, then a colon and a space
OffsetHasDigits(p, n) ==
    LET t == SubSeq(out, p.start, Min(Len(out), p.start + n + 3))
    IN  /\ Len(t) = n + 4
        /\ t[1] = "0" /\ t[2] = "x"
        /\ \A i \in 3..(n + 2) : IsHexDigit(t[i])
        /\ HexVal(SubSeq(t, 3, n + 2)) = p.at
        /\ t[n + 3] = ":" /\ t[n + 4] = " "

\* C3 as stated: every row starts with 0x, 8 zero-padded hex digits and ": ".
C3_OffsetEightDigits ==
    \A i \in 1..Len(printed) : OffsetHasDigits(printed[i], 8)

\* C3, amended: every row starts with 0x, the offset in 6 zero-padded hex
\* digits (a width of 8 with the 0x) and ": ".
C3_OffsetSixDigits ==
    \A i \in 1..Len(printed) : OffsetHasDigits(printed[i], 6)

C3_Witness ==
    /\ pc = "done" /\ result = "Ok" /\ Len(printed) >= 2
    /\ printed[2].at > 0
    /\ SubSeq(out, 1, 10) = <<"0", "x", "0", "0", "0", "0", "0", "0", ":", " ">>

\* C4: with colorize off (and W > 0) the ASCII gutter starts at the same column
\* in every row of the dump, for every representation and prefix setting.
C4_GutterAligned ==
    (~colorize /\ column_width > 0) =>
        \A i, j \in 1..Len(printed) :
            printed[i].gutter - printed[i].start = printed[j].gutter - printed[j].start

\* C10: the offset printed for a row is the number of bytes in the rows before
\* it, and after the last row the cursor is the total of the summary line.
C10_OffsetCountsBytes ==
    /\ \A i \in 1..Len(printed) :
           printed[i].at = SumBytes(SubSeq(page.body, 1, i - 1))
    /\ (pc = "done" /\ result = "Ok") =>
           /\ offset_counter = page.bytes
           /\ LET tail == <<"   bytes: ">> \o Dec(offset_counter) \o <<"\n">>
              IN  SubSeq(out, Len(out) - Len(tail) + 1, Len(out)) = tail

C10_Witness ==
    /\ pc = "done" /\ result = "Ok"
    /\ Len(printed) >= 3 /\ printed[3].at >= 2 /\ offset_counter = 3

(***************************************************************************)
(* Properties of the array literal (SpecArray).                            *)
(***************************************************************************)
Separator(tag) == IF tag = "f" THEN <<";", " ">> ELSE <<",", " ">>

\* the text written for a byte ends with the separator of the syntax
EndsWithSeparator(p) ==
    /\ p.end - p.start >= 2
    /\ SubSeq(out, p.end - 1, p.end) = Separator(array_format)

\* the text written for a byte holds no separator at all
HasNoSeparator(p) ==
    \A k \in p.start..p.end : out[k] \notin {",", ";", " "}

\* C5: for a syntax other than g every byte but the last of the page is followed
\* by the separator and the last by none; for g every byte is followed by it.
C5_Separators ==
    \A k \in 1..Len(printed) :
        /\ printed[k].i = k
        /\ IF array_format = "g" \/ k < page.bytes
           THEN EndsWithSeparator(printed[k])
           ELSE HasNoSeparator(printed[k]) /\ out[printed[k].end + 1] = "\n"

C5_Witness ==
    /\ pc = "done" /\ result = "Ok" /\ array_format \notin {"g", "f"}
    /\ Len(printed) >= 3 /\ page.bytes = 3 /\ Len(page.body) >= 2
    /\ HasNoSeparator(printed[3])

\* C6: a failed read of the byte source is returned to the caller as an error
\* and no page is kept, here in array-literal mode.
C6_ReadFailureReturned ==
    (pc = "done" /\ ~buf_to_array(src, fail, truncate_len, column_width).ok) =>
        (result = "Err" /\ page = PageNew)

(***************************************************************************)
(* Properties of the argument handling (SpecConfig).                       *)
(***************************************************************************)
\* the numeric values the selected mode reads
Consulted == IF args.func.present THEN {"func", "places"} ELSE {"cols", "len", "color"}

ParseFails(name) ==
    /\ args[name].present
    /\ IF name = "color" THEN ~ParseU8(args[name].text).ok
       ELSE ~ParseU64(args[name].text).ok

\* C7: a numeric value that does not parse makes run write a message and return
\* an error before anything is rendered.
C7_ParseFailureReturned ==
    (pc # "config" /\ (args.func.present \/ env.input # "nofile")
       /\ \E name \in Consulted : ParseFails(name)) =>
        (result = "Err" /\ err # <<>> /\ out = <<>>)

=============================================================================
